---- MODULE Spec2Model ----
(***************************************************************************)
(* State-machine model of video-snapshot (src/main.py): the interactive    *)
(* playback / snapshot loop of main(), the capture-opening helpers and the *)
(* timestamp formatter.                                                    *)
(*                                                                         *)
(* Library objects are modelled by what the code observes of them:         *)
(*  - a cv2.VideoCapture is a record with a forward-only cursor `pos` over *)
(*    the frames the file held when the handle was opened;                 *)
(*  - cap.read() past the last frame returns (False, None);                *)
(*  - the video file on disk may be replaced, truncated or deleted by the  *)
(*    environment while the program runs.                                  *)
(***************************************************************************)
EXTENDS Integers, Sequences, FiniteSets, TLC

(* ------------------------------ bounds --------------------------------- *)
\* longest video file, in frames
MaxFrames == 3
\* number of cv2.VideoCapture objects one run may construct
MaxHandles == 4
\* number of times the environment may change the video file
MaxFileChanges == 1
\* half-milliseconds explored around each sampled playback time
FmtSpread == 5

(* --------------------------- plain helpers ----------------------------- *)
\* Python's None, for the frame variable
NoFrame == 0

\* content of the i-th frame of revision `rev` of the file (never NoFrame)
FrameOf(rev, i) == rev * 10 + i

MakeFrames(rev, n) == [i \in 1..n |-> FrameOf(rev, i)]

MaxOf(a, b) == IF a >= b THEN a ELSE b

\* Python round() of the non-negative rational num/den: ties go to even
RoundHalfEven(num, den) ==
  LET q == num \div den
      r == num % den
  IN  IF 2 * r < den THEN q
      ELSE IF 2 * r > den THEN q + 1
      ELSE IF q % 2 = 0 THEN q ELSE q + 1

DigitChar(d) == <<"0", "1", "2", "3", "4", "5", "6", "7", "8", "9">>[d + 1]

RECURSIVE Digits(_)
Digits(n) == IF n < 10 THEN <<DigitChar(n)>>
             ELSE Digits(n \div 10) \o <<DigitChar(n % 10)>>

\* Python format spec {n:0wd} for n >= 0: at least w digits, zero padded
ZeroPad(n, w) ==
  LET d == Digits(n)
  IN  IF Len(d) >= w THEN d ELSE [i \in 1..(w - Len(d)) |-> "0"] \o d

(* ------------------------- format_time_msec ---------------------------- *)
\* The float argument msec is carried as a count of half-milliseconds h
\* (msec = h / 2), so that round() has a tie to resolve.
TotalMs(h) == RoundHalfEven(h, 2)

format_time_msec_SecondsNotWrapped(h) ==
  ZeroPad((TotalMs(h) \div 1000) \div 60, 4) \o <<"m">>
    \o ZeroPad(TotalMs(h) \div 1000, 2) \o <<"s">>
    \o ZeroPad(TotalMs(h) % 1000, 3) \o <<"m", "s">>

format_time_msec(h) ==
  LET total_ms == TotalMs(h)
      total_seconds == total_ms \div 1000
      ms == total_ms % 1000
      minutes == total_seconds \div 60
      seconds == total_seconds % 60
  IN  ZeroPad(minutes, 4) \o <<"m">> \o ZeroPad(seconds, 2) \o <<"s">>
        \o ZeroPad(ms, 3) \o <<"m", "s">>

(* --------------------------- video handles ----------------------------- *)
\* The file on disk: exists (os.path.exists), whether each backend can open
\* it, and the frames it holds.
FileRec(ex, ff, df, fr) ==
  [exists |-> ex, ffOk |-> ff, defOk |-> df, frames |-> fr]

\* cv2.VideoCapture(path [, backend]): a new handle at cursor 0
NewCapture(f, backend, id) ==
  [id |-> id,
   backend |-> backend,
   opened |-> f.exists /\ (IF backend = "FFMPEG" THEN f.ffOk ELSE f.defOk),
   released |-> FALSE,
   pos |-> 0,
   content |-> f.frames]

\* placeholder before any handle exists
NoCap ==
  [id |-> 0, backend |-> "NONE", opened |-> FALSE, released |-> FALSE,
   pos |-> 0, content |-> <<>>]

IsOpened(c) == c.opened /\ ~c.released

Release(c) == [c EXCEPT !.released = TRUE]

\* cap.read(): (ret, frame) and the handle after the call
Read(c) ==
  IF IsOpened(c) /\ c.pos < Len(c.content)
  THEN [ret |-> TRUE, frame |-> c.content[c.pos + 1],
        cap |-> [c EXCEPT !.pos = c.pos + 1]]
  ELSE [ret |-> FALSE, frame |-> NoFrame, cap |-> c]

\* cv2.getBuildInformation() outcomes
BuildInfos == {"raise", "FFMPEG: YES", "FFMPEG: NO"}

has_ffmpeg_support(info) ==
  IF info = "raise" THEN FALSE ELSE info = "FFMPEG: YES"

create_capture_AlwaysFfmpegLabel(f, info, id) ==
  IF has_ffmpeg_support(info)
  THEN LET c1 == NewCapture(f, "FFMPEG", id)
       IN  IF IsOpened(c1)
           THEN [cap |-> c1, backend |-> "FFMPEG", made |-> 1,
                 ffTried |-> TRUE, ffOpened |-> TRUE, ffReleased |-> FALSE]
           ELSE [cap |-> NewCapture(f, "DEFAULT", id + 1),
                 backend |-> "FFMPEG", made |-> 2,
                 ffTried |-> TRUE, ffOpened |-> FALSE, ffReleased |-> TRUE]
  ELSE [cap |-> NewCapture(f, "DEFAULT", id), backend |-> "DEFAULT",
        made |-> 1, ffTried |-> FALSE, ffOpened |-> FALSE,
        ffReleased |-> FALSE]

\* create_capture(video_path): the handle returned, the backend label, the
\* number of VideoCapture objects constructed, and what became of the
\* FFMPEG attempt.
create_capture(f, info, id) ==
  IF has_ffmpeg_support(info)
  THEN LET c1 == NewCapture(f, "FFMPEG", id)
       IN  IF IsOpened(c1)
           THEN [cap |-> c1, backend |-> "FFMPEG", made |-> 1,
                 ffTried |-> TRUE, ffOpened |-> TRUE, ffReleased |-> FALSE]
           ELSE [cap |-> NewCapture(f, "DEFAULT", id + 1),
                 backend |-> "DEFAULT", made |-> 2,
                 ffTried |-> TRUE, ffOpened |-> FALSE,
                 ffReleased |-> Release(c1).released]
  ELSE [cap |-> NewCapture(f, "DEFAULT", id), backend |-> "DEFAULT",
        made |-> 1, ffTried |-> FALSE, ffOpened |-> FALSE,
        ffReleased |-> FALSE]

RECURSIVE SeekLoop_KeepLastFrame(_, _, _, _)
SeekLoop_KeepLastFrame(c, current_frame, frame, target) ==
  IF current_frame < target
  THEN LET r == Read(c)
       IN  IF ~r.ret THEN [cap |-> r.cap, frame |-> frame]
           ELSE SeekLoop_KeepLastFrame(r.cap, current_frame + 1, r.frame, target)
  ELSE [cap |-> c, frame |-> frame]

RECURSIVE SeekLoop(_, _, _, _)
\* the while loop of reopen_and_seek_to_frame: (cap, frame) when it ends
SeekLoop(c, current_frame, frame, target) ==
  IF current_frame < target
  THEN LET r == Read(c)
       IN  IF ~r.ret THEN [cap |-> r.cap, frame |-> r.frame]
           ELSE SeekLoop(r.cap, current_frame + 1, r.frame, target)
  ELSE [cap |-> c, frame |-> frame]

reopen_and_seek_to_frame_LeakOnShort(f, info, id, target) ==
  LET cc == create_capture(f, info, id)
  IN  IF ~IsOpened(cc.cap)
      THEN [ok |-> FALSE, cap |-> cc.cap, frame |-> NoFrame, cc |-> cc]
      ELSE LET s == SeekLoop(cc.cap, 0, NoFrame, target)
           IN  IF s.frame = NoFrame
               THEN [ok |-> FALSE, cap |-> s.cap,
                     frame |-> NoFrame, cc |-> cc]
               ELSE [ok |-> TRUE, cap |-> s.cap, frame |-> s.frame, cc |-> cc]

\* reopen_and_seek_to_frame(video_path, target): ok is "neither result is
\* None"; cap is the handle as the function leaves it.
reopen_and_seek_to_frame(f, info, id, target) ==
  LET cc == create_capture(f, info, id)
  IN  IF ~IsOpened(cc.cap)
      THEN [ok |-> FALSE, cap |-> cc.cap, frame |-> NoFrame, cc |-> cc]
      ELSE LET s == SeekLoop(cc.cap, 0, NoFrame, target)
           IN  IF s.frame = NoFrame
               THEN [ok |-> FALSE, cap |-> Release(s.cap),
                     frame |-> NoFrame, cc |-> cc]
               ELSE [ok |-> TRUE, cap |-> s.cap, frame |-> s.frame, cc |-> cc]

(* ------------------------------ state ---------------------------------- *)
VARIABLES
  pc,           \* "start", "loop_top", "wait_key", "exited"
  file,         \* the video file on disk
  fileChanges,  \* how often the environment changed the file
  buildInfo,    \* what cv2.getBuildInformation() reports
  video_path,   \* main's video_path once resolved
  cap,          \* main's cap
  nextId,       \* id of the next VideoCapture constructed
  liveHandles,  \* handles that are opened and not released
  lastCreate,   \* outcome of the latest create_capture call
  window,       \* the display window: state and content size
  paused, frame, frame_index,
  exitCode,     \* -1 while the process runs, else its exit status
  exitReason,   \* which statement ended the process
  loopEntered,  \* main reached `while True`
  prev,         \* key dispatched last and the state it was dispatched in
  snap,         \* what the latest dispatch wrote: filename, whether saved
  msec,         \* an argument of format_time_msec, in half-milliseconds
  time_str      \* the string format_time_msec returned for it

vars == <<pc, file, fileChanges, buildInfo, video_path, cap, nextId,
          liveHandles, lastCreate, window, paused, frame, frame_index,
          exitCode, exitReason, loopEntered, prev, snap, msec, time_str>>

envVars == <<buildInfo, video_path>>
ghostVars == <<prev>>
fmtVars == <<msec, time_str>>
snapVars == <<snap>>

NoCreate ==
  [backend |-> "NONE", made |-> 0, ffTried |-> FALSE, ffOpened |-> FALSE,
   ffReleased |-> FALSE, capBackend |-> "NONE", capOpened |-> FALSE,
   info |-> "NONE", ffOk |-> FALSE, frames |-> 0]

\* what a create_capture call did, together with the inputs that decide it
\* and the number of frames the file held at that moment
CreateLog(cc, f, info) ==
  [backend |-> cc.backend, made |-> cc.made, ffTried |-> cc.ffTried,
   ffOpened |-> cc.ffOpened, ffReleased |-> cc.ffReleased,
   capBackend |-> cc.cap.backend, capOpened |-> IsOpened(cc.cap),
   info |-> info, ffOk |-> f.exists /\ f.ffOk, frames |-> Len(f.frames)]

NoPrev ==
  [key |-> "none", paused |-> FALSE, idx |-> 0, frame |-> NoFrame,
   capId |-> 0, pos |-> 0, nextId |-> 0, stepped |-> NoFrame,
   started |-> FALSE]

\* The state a key is dispatched in.  stepped is the frame held before the
\* preceding dispatch when that dispatch was a step-forward that advanced
\* (and NoFrame otherwise).  started tells whether toggle-pause or
\* step-forward has been dispatched so far, this dispatch included.
Here(key) ==
  [key |-> key, paused |-> paused, idx |-> frame_index, frame |-> frame,
   capId |-> cap.id, pos |-> cap.pos, nextId |-> nextId,
   stepped |-> IF prev.key = "d" /\ prev.paused /\ frame_index = prev.idx + 1
               THEN prev.frame ELSE NoFrame,
   started |-> prev.started \/ key \in {" ", "d"}]

NoSnap == [name |-> <<>>, saved |-> FALSE, pos_msec |-> 0]

\* frame.shape[:2] of the decoded frames, as <<width, height>>
shape == <<4, 3>>

\* content widths cv2.getWindowImageRect may report
WinWidths == {4, 6}

NoWindow == [state |-> "none", w |-> 0, h |-> 0]

InitFiles ==
  { FileRec(ex, ff, df, MakeFrames(1, n)) :
      ex \in BOOLEAN, ff \in BOOLEAN, df \in BOOLEAN, n \in 0..MaxFrames }

Init ==
  /\ pc = "start"
  /\ file \in InitFiles
  /\ fileChanges = 0
  /\ buildInfo \in BuildInfos
  /\ video_path = "unset"
  /\ cap = NoCap
  /\ nextId = 1
  /\ liveHandles = 0
  /\ lastCreate = NoCreate
  /\ window = NoWindow
  /\ paused = TRUE
  /\ frame = NoFrame
  /\ frame_index = 0
  /\ exitCode = -1
  /\ exitReason = "running"
  /\ loopEntered = FALSE
  /\ prev = NoPrev
  /\ snap = NoSnap
  /\ msec = 0
  /\ time_str = <<>>

(* ------------------------------ setup ---------------------------------- *)
PathNone == "None"

select_video_file_via_dialog(dialog) ==
  IF dialog = "" THEN PathNone ELSE dialog

resolve_video_path_from_args_or_dialog(argv, f, dialog) ==
  IF argv
  THEN IF f.exists THEN "video.mp4" ELSE PathNone
  ELSE select_video_file_via_dialog(dialog)

\* Python truthiness of the path: None and "" are false
Falsy(path) == path = PathNone \/ path = ""

Live(c) == IF IsOpened(c) THEN 1 ELSE 0

\* sys.exit(code) reached at `reason`
SysExit(code, reason) ==
  /\ pc' = "exited"
  /\ exitCode' = code
  /\ exitReason' = reason

\* main, lines 150-155: the first read failed
FirstFrameExit(cc) ==
  /\ cap' = Release(cc.cap)
  /\ nextId' = nextId + cc.made
  /\ lastCreate' = CreateLog(cc, file, buildInfo)
  /\ liveHandles' = liveHandles + Live(Release(cc.cap))
  /\ window' = [state |-> "destroyed", w |-> 0, h |-> 0]
  /\ SysExit(1, "first_frame_failed")
  /\ UNCHANGED <<paused, frame, frame_index, loopEntered>>

SetupFailsExit_Status0(reason) ==
  /\ SysExit(0, reason)
  /\ UNCHANGED <<cap, nextId, lastCreate, liveHandles, window, paused, frame,
                 frame_index, loopEntered>>

\* main, lines 125-131: no usable path
NoPathExit(reason) ==
  /\ SysExit(1, reason)
  /\ UNCHANGED <<cap, nextId, lastCreate, liveHandles, window, paused, frame,
                 frame_index, loopEntered>>

\* main, lines 137-140: neither backend opened the file
OpenFailedExit(cc) ==
  /\ cap' = cc.cap
  /\ nextId' = nextId + cc.made
  /\ lastCreate' = CreateLog(cc, file, buildInfo)
  /\ SysExit(1, "open_failed")
  /\ UNCHANGED <<liveHandles, window, paused, frame, frame_index, loopEntered>>

EnterLoop_StartsPlaying(cc, r) ==
  /\ cap' = r.cap
  /\ nextId' = nextId + cc.made
  /\ lastCreate' = CreateLog(cc, file, buildInfo)
  /\ liveHandles' = liveHandles + Live(cc.cap)
  /\ window' = [state |-> "open", w |-> shape[1], h |-> shape[2]]
  /\ paused' = FALSE
  /\ frame' = r.frame
  /\ frame_index' = 1
  /\ loopEntered' = TRUE
  /\ pc' = "loop_top"
  /\ UNCHANGED <<exitCode, exitReason>>

\* main, lines 144-175: window created, first frame held, loop entered
EnterLoop(cc, r) ==
  /\ cap' = r.cap
  /\ nextId' = nextId + cc.made
  /\ lastCreate' = CreateLog(cc, file, buildInfo)
  /\ liveHandles' = liveHandles + Live(cc.cap)
  /\ window' = [state |-> "open", w |-> shape[1], h |-> shape[2]]
  /\ paused' = TRUE
  /\ frame' = r.frame
  /\ frame_index' = 1
  /\ loopEntered' = TRUE
  /\ pc' = "loop_top"
  /\ UNCHANGED <<exitCode, exitReason>>

\* main, lines 123-175; argv: a path was given on the command line,
\* dialog: what the file dialog returns if it is shown
Setup ==
  /\ pc = "start"
  /\ \E argv \in BOOLEAN, dialog \in {"", "video.mp4"} :
       video_path' = resolve_video_path_from_args_or_dialog(argv, file, dialog)
  /\ LET cc == create_capture(file, buildInfo, nextId)
         r == Read(cc.cap)
     IN  IF Falsy(video_path') THEN NoPathExit("no_file")
         ELSE IF ~file.exists THEN NoPathExit("not_found")
         ELSE IF ~IsOpened(cc.cap) THEN OpenFailedExit(cc)
         ELSE IF ~r.ret THEN FirstFrameExit(cc)
         ELSE EnterLoop(cc, r)
  /\ UNCHANGED <<file, fileChanges, buildInfo, ghostVars, snapVars, fmtVars>>

(* --------------------------- leaving the loop -------------------------- *)
Cleanup_NoRelease(c, reason) ==
  /\ cap' = c
  /\ liveHandles' = liveHandles
  /\ window' = [state |-> "destroyed", w |-> 0, h |-> 0]
  /\ SysExit(0, reason)

\* main, lines 272-273, reached by `break`; main then returns (status 0)
Cleanup(c, reason) ==
  /\ cap' = Release(c)
  /\ liveHandles' = liveHandles - Live(c)
  /\ window' = [state |-> "destroyed", w |-> 0, h |-> 0]
  /\ SysExit(0, reason)

\* cv2.getWindowProperty(window_name, WND_PROP_VISIBLE) < 1
WindowGone == window.state # "open"

(* ------------------------- top of an iteration ------------------------- *)
\* main, lines 179-181
WindowClosedBreak ==
  /\ pc = "loop_top"
  /\ WindowGone
  /\ Cleanup(cap, "window_closed")
  /\ UNCHANGED <<file, fileChanges, envVars, nextId, lastCreate, paused, frame,
                 frame_index, loopEntered, ghostVars, snapVars, fmtVars>>

PlayRead_KeepPlayingAtEnd(r) ==
  IF ~r.ret
  THEN /\ frame' = r.frame
       /\ cap' = r.cap
       /\ pc' = "wait_key"
       /\ UNCHANGED <<frame_index, liveHandles, window, exitCode, exitReason>>
  ELSE /\ frame' = r.frame
       /\ frame_index' = frame_index + 1
       /\ cap' = r.cap
       /\ pc' = "wait_key"
       /\ UNCHANGED <<liveHandles, window, exitCode, exitReason>>

PlayRead_StallAtEnd(r) ==
  IF ~r.ret
  THEN /\ cap' = r.cap
       /\ pc' = "wait_key"
       /\ UNCHANGED <<frame, frame_index, liveHandles, window, exitCode,
                      exitReason>>
  ELSE /\ frame' = r.frame
       /\ frame_index' = frame_index + 1
       /\ cap' = r.cap
       /\ pc' = "wait_key"
       /\ UNCHANGED <<liveHandles, window, exitCode, exitReason>>

PlayRead_NoIndexAdvance(r) ==
  IF ~r.ret
  THEN /\ frame' = r.frame
       /\ Cleanup(r.cap, "end_of_stream")
       /\ UNCHANGED frame_index
  ELSE /\ frame' = r.frame
       /\ frame_index' = frame_index
       /\ cap' = r.cap
       /\ pc' = "wait_key"
       /\ UNCHANGED <<liveHandles, window, exitCode, exitReason>>

\* main, lines 184-191 with r the result of cap.read()
PlayRead(r) ==
  IF ~r.ret
  THEN /\ frame' = r.frame
       /\ Cleanup(r.cap, "end_of_stream")
       /\ UNCHANGED frame_index
  ELSE /\ frame' = r.frame
       /\ frame_index' = frame_index + 1
       /\ cap' = r.cap
       /\ pc' = "wait_key"
       /\ UNCHANGED <<liveHandles, window, exitCode, exitReason>>

\* main, lines 183-193 while playing
PlayStep ==
  /\ pc = "loop_top"
  /\ ~WindowGone
  /\ ~paused
  /\ PlayRead(Read(cap))
  /\ UNCHANGED <<file, fileChanges, envVars, nextId, lastCreate, paused,
                 loopEntered, ghostVars, snapVars, fmtVars>>

\* main, lines 183-193 while paused: the held frame is shown again
PausedShow ==
  /\ pc = "loop_top"
  /\ ~WindowGone
  /\ paused
  /\ pc' = "wait_key"
  /\ UNCHANGED <<file, fileChanges, envVars, cap, nextId, liveHandles,
                 lastCreate, window, paused, frame, frame_index, exitCode,
                 exitReason, loopEntered, ghostVars, snapVars, fmtVars>>

(* --------------------------- key handlers ------------------------------ *)
\* what a handler that falls through to the next iteration leaves alone
Continue == pc' = "loop_top" /\ UNCHANGED <<exitCode, exitReason>>

\* main, lines 197-199
on_quit ==
  /\ Cleanup(cap, "quit")
  /\ UNCHANGED <<nextId, lastCreate, paused, frame, frame_index>>

on_toggle_pause_OnlyPauses ==
  /\ paused' = TRUE
  /\ Continue
  /\ UNCHANGED <<cap, nextId, liveHandles, lastCreate, window, frame,
                 frame_index>>

\* main, lines 201-203
on_toggle_pause ==
  /\ paused' = ~paused
  /\ Continue
  /\ UNCHANGED <<cap, nextId, liveHandles, lastCreate, window, frame,
                 frame_index>>

\* save_frame(filepath, frame) by what imencode and the file write do
save_frame(outcome) ==
  IF outcome = "encode_raise" THEN FALSE
  ELSE IF outcome = "encode_not_ok" THEN FALSE
  ELSE IF outcome = "write_raise" THEN FALSE
  ELSE TRUE

SaveOutcomes == {"encode_raise", "encode_not_ok", "write_raise", "ok"}

SnapshotName_UnpaddedIndex(time, idx) ==
  <<"video", "_">> \o time \o <<"_">> \o Digits(idx) \o <<".png">>

\* main, line 214
SnapshotName(time, idx) ==
  <<"video", "_">> \o time \o <<"_">> \o ZeroPad(idx, 6) \o <<".png">>

\* main, lines 205-224; h is what cap.get(CAP_PROP_POS_MSEC) reports
on_snapshot(h, outcome) ==
  /\ IF frame = NoFrame
     THEN snap' = NoSnap
     ELSE LET pos_msec == h
              time_str_ == format_time_msec(pos_msec)
          IN  snap' = [name |-> SnapshotName(time_str_, frame_index),
                       saved |-> save_frame(outcome),
                       pos_msec |-> pos_msec]
  /\ Continue
  /\ UNCHANGED <<cap, nextId, liveHandles, lastCreate, window, paused, frame,
                 frame_index>>

target_index_NoClamp(fi) == fi - 1

\* main, line 229
target_index_of(fi) == MaxOf(fi - 1, 1)

AdoptReopened_KeepOldFrame(ro, target_index) ==
  IF ro.ok
  THEN /\ cap' = ro.cap
       /\ liveHandles' = liveHandles + Live(ro.cap) - Live(cap)
       /\ frame' = frame
       /\ frame_index' = target_index
  ELSE /\ liveHandles' = liveHandles + Live(ro.cap)
       /\ UNCHANGED <<cap, frame, frame_index>>

AdoptReopened_NoRelease(ro, target_index) ==
  IF ro.ok
  THEN /\ cap' = ro.cap
       /\ liveHandles' = liveHandles + Live(ro.cap)
       /\ frame' = ro.frame
       /\ frame_index' = target_index
  ELSE /\ liveHandles' = liveHandles + Live(ro.cap)
       /\ UNCHANGED <<cap, frame, frame_index>>

\* main, lines 234-239
AdoptReopened(ro, target_index) ==
  IF ro.ok
  THEN /\ cap' = ro.cap
       /\ liveHandles' = liveHandles + Live(ro.cap) - Live(cap)
       /\ frame' = ro.frame
       /\ frame_index' = target_index
  ELSE /\ liveHandles' = liveHandles + Live(ro.cap)
       /\ UNCHANGED <<cap, frame, frame_index>>

\* main, lines 226-239
on_step_backward ==
  /\ IF paused /\ target_index_of(frame_index) # frame_index
     THEN LET target_index == target_index_of(frame_index)
              ro == reopen_and_seek_to_frame(file, buildInfo, nextId,
                                             target_index)
          IN  /\ nextId + 1 <= MaxHandles
              /\ nextId' = nextId + ro.cc.made
              /\ lastCreate' = CreateLog(ro.cc, file, buildInfo)
              /\ AdoptReopened(ro, target_index)
     ELSE UNCHANGED <<cap, nextId, liveHandles, lastCreate, frame, frame_index>>
  /\ Continue
  /\ UNCHANGED <<window, paused>>

StepRead_NoIndexAdvance(r) ==
  IF r.ret
  THEN /\ frame' = r.frame
       /\ frame_index' = frame_index
       /\ cap' = r.cap
  ELSE /\ cap' = r.cap
       /\ UNCHANGED <<frame, frame_index>>

StepRead_OverwriteFrame(r) ==
  /\ frame' = r.frame
  /\ frame_index' = IF r.ret THEN frame_index + 1 ELSE frame_index
  /\ cap' = r.cap

\* main, lines 244-250 with r the result of cap.read()
StepRead(r) ==
  IF r.ret
  THEN /\ frame' = r.frame
       /\ frame_index' = frame_index + 1
       /\ cap' = r.cap
  ELSE /\ cap' = r.cap
       /\ UNCHANGED <<frame, frame_index>>

on_step_forward_BreakAtEnd ==
  /\ IF paused /\ ~Read(cap).ret
     THEN /\ Cleanup(cap, "end_of_stream")
          /\ UNCHANGED <<frame, frame_index, nextId, lastCreate, paused>>
     ELSE /\ IF paused
             THEN StepRead(Read(cap))
             ELSE UNCHANGED <<cap, frame, frame_index>>
          /\ Continue
          /\ UNCHANGED <<nextId, liveHandles, lastCreate, window, paused>>

on_step_forward_IgnoresPaused ==
  /\ StepRead(Read(cap))
  /\ Continue
  /\ UNCHANGED <<nextId, liveHandles, lastCreate, window, paused>>

\* main, lines 241-250
on_step_forward ==
  /\ IF paused
     THEN StepRead(Read(cap))
     ELSE UNCHANGED <<cap, frame, frame_index>>
  /\ Continue
  /\ UNCHANGED <<nextId, liveHandles, lastCreate, window, paused>>

on_resize_keep_width_RaiseEscapes(raises, win_w) ==
  IF raises
  THEN /\ SysExit(1, "exception")
       /\ UNCHANGED <<cap, nextId, liveHandles, lastCreate, window, paused,
                      frame, frame_index>>
  ELSE /\ window' = [window EXCEPT
                       !.w = win_w,
                       !.h = RoundHalfEven(win_w * shape[2], shape[1])]
       /\ Continue
       /\ UNCHANGED <<cap, nextId, liveHandles, lastCreate, paused, frame,
                      frame_index>>

\* main, lines 252-265; raises: cv2.getWindowImageRect threw, win_w: the
\* width it reported otherwise (the user may have dragged the window)
on_resize_keep_width(raises, win_w) ==
  /\ IF raises
     THEN UNCHANGED window
     ELSE LET new_w == win_w
              new_h == RoundHalfEven(new_w * shape[2], shape[1])
          IN  window' = [window EXCEPT !.w = new_w, !.h = new_h]
  /\ Continue
  /\ UNCHANGED <<cap, nextId, liveHandles, lastCreate, paused, frame,
                 frame_index>>

\* main, lines 267-270
on_resize_reset ==
  /\ window' = [window EXCEPT !.w = shape[1], !.h = shape[2]]
  /\ Continue
  /\ UNCHANGED <<cap, nextId, liveHandles, lastCreate, paused, frame,
                 frame_index>>

\* any other key: no branch of the if/elif chain matches
on_other_key ==
  /\ Continue
  /\ UNCHANGED <<cap, nextId, liveHandles, lastCreate, window, paused, frame,
                 frame_index>>

\* playback times cap.get(CAP_PROP_POS_MSEC) may report, in half-ms
PosSamples == {24691, 2 * 599999999 + 1}

\* cv2.waitKey(30) returned `key`: the state it is dispatched in is recorded
Dispatched(key) ==
  /\ pc = "wait_key"
  /\ window.state = "open"
  /\ prev' = Here(key)
  /\ UNCHANGED <<file, fileChanges, envVars, loopEntered, fmtVars>>

\* snap holds what the dispatch wrote: nothing, unless the key is "s"
WroteNothing == snap' = NoSnap

KeyQuit == Dispatched("q") /\ on_quit /\ WroteNothing
KeyTogglePause == Dispatched(" ") /\ on_toggle_pause /\ WroteNothing
KeySnapshot ==
  /\ Dispatched("s")
  /\ \E h \in PosSamples, outcome \in SaveOutcomes : on_snapshot(h, outcome)
KeyStepBackward == Dispatched("a") /\ on_step_backward /\ WroteNothing
KeyStepForward == Dispatched("d") /\ on_step_forward /\ WroteNothing
KeyResizeKeepWidth ==
  /\ Dispatched("r")
  /\ \E raises \in BOOLEAN, win_w \in WinWidths :
       on_resize_keep_width(raises, win_w)
  /\ WroteNothing
KeyResizeReset == Dispatched("R") /\ on_resize_reset /\ WroteNothing
KeyOther == Dispatched("other") /\ on_other_key /\ WroteNothing

\* main, lines 193-195: waitKey timed out (key == -1)
NoKey ==
  /\ pc = "wait_key"
  /\ pc' = "loop_top"
  /\ UNCHANGED <<file, fileChanges, envVars, cap, nextId, liveHandles,
                 lastCreate, window, paused, frame, frame_index, exitCode,
                 exitReason, loopEntered, ghostVars, snapVars, fmtVars>>

(* ---------------------------- environment ------------------------------ *)
Running == pc \in {"loop_top", "wait_key"}

\* what the file may become: truncated, re-encoded, deleted, or no longer
\* readable by the FFMPEG backend
ChangedFiles(f) ==
  ({ FileRec(f.exists, f.ffOk, f.defOk, SubSeq(f.frames, 1, n)) :
       n \in 0..Len(f.frames) }
     \cup { FileRec(f.exists, f.ffOk, f.defOk, MakeFrames(2, Len(f.frames))),
            FileRec(FALSE, f.ffOk, f.defOk, f.frames),
            FileRec(f.exists, FALSE, TRUE, f.frames) })
    \ {f}

FileChange ==
  /\ Running
  /\ fileChanges < MaxFileChanges
  /\ \E f \in ChangedFiles(file) : file' = f
  /\ fileChanges' = fileChanges + 1
  /\ UNCHANGED <<pc, envVars, cap, nextId, liveHandles, lastCreate, window,
                 paused, frame, frame_index, exitCode, exitReason, loopEntered,
                 ghostVars, snapVars, fmtVars>>

\* The user clicks the window's close button.  GUI events are processed
\* inside cv2.waitKey, which then has no window left to deliver a key and
\* returns -1 (main, lines 193-195).
CloseWindow ==
  /\ pc = "wait_key"
  /\ window.state = "open"
  /\ window' = [window EXCEPT !.state = "closed"]
  /\ pc' = "loop_top"
  /\ UNCHANGED <<file, fileChanges, envVars, cap, nextId, liveHandles,
                 lastCreate, paused, frame, frame_index, exitCode, exitReason,
                 loopEntered, ghostVars, snapVars, fmtVars>>

Next ==
  \/ Setup
  \/ WindowClosedBreak
  \/ PlayStep
  \/ PausedShow
  \/ NoKey
  \/ KeyQuit
  \/ KeyTogglePause
  \/ KeySnapshot
  \/ KeyStepBackward
  \/ KeyStepForward
  \/ KeyResizeKeepWidth
  \/ KeyResizeReset
  \/ KeyOther
  \/ FileChange
  \/ CloseWindow

Spec == Init /\ [][Next]_vars

\* main, lines 177-191: the part of an iteration before cv2.waitKey; none
\* of its calls blocks
IterationTop == WindowClosedBreak \/ PlayStep \/ PausedShow

\* main, lines 193-270: cv2.waitKey(30) returns after at most 30 ms, with
\* a key or with -1, and the branch taken runs to its end
IterationRest ==
  \/ NoKey
  \/ KeyQuit
  \/ KeyTogglePause
  \/ KeySnapshot
  \/ KeyStepBackward
  \/ KeyStepForward
  \/ KeyResizeKeepWidth
  \/ KeyResizeReset
  \/ KeyOther
  \/ CloseWindow

\* the program with its iterations scheduled fairly: the setup and each
\* half of an iteration complete; the environment is not obliged to act
LiveSpec ==
  /\ Init
  /\ [][Next]_vars
  /\ WF_vars(Setup)
  /\ WF_vars(IterationTop)
  /\ WF_vars(IterationRest)

(* -------------------- format_time_msec on its own ---------------------- *)
\* playback times around which the formatter is exercised, in ms
FmtBases == {0, 499, 999, 12345, 59994, 61999, 3599994, 599999994}

\* the same in half-milliseconds, each followed by FmtSpread whole
\* milliseconds and the halves between them
FmtInputs == { 2 * b + d : b \in FmtBases, d \in 0..(2 * FmtSpread) }

FmtInit ==
  /\ pc = "start"
  /\ file = FileRec(FALSE, FALSE, FALSE, <<>>)
  /\ fileChanges = 0
  /\ buildInfo = "FFMPEG: NO"
  /\ video_path = "unset"
  /\ cap = NoCap
  /\ nextId = 1
  /\ liveHandles = 0
  /\ lastCreate = NoCreate
  /\ window = NoWindow
  /\ paused = TRUE
  /\ frame = NoFrame
  /\ frame_index = 0
  /\ exitCode = -1
  /\ exitReason = "running"
  /\ loopEntered = FALSE
  /\ prev = NoPrev
  /\ snap = NoSnap
  /\ msec = 0
  /\ time_str = <<>>

mainVars == <<pc, file, fileChanges, buildInfo, video_path, cap, nextId,
              liveHandles, lastCreate, window, paused, frame, frame_index,
              exitCode, exitReason, loopEntered, prev, snap>>

\* time_str = format_time_msec(msec)
FormatCall ==
  /\ time_str = <<>>
  /\ time_str' = format_time_msec(msec)
  /\ UNCHANGED <<msec, mainVars>>

\* the caller moves on to another playback time
NextTime ==
  /\ time_str # <<>>
  /\ msec' \in FmtInputs
  /\ time_str' = <<>>
  /\ UNCHANGED mainVars

FmtNext == FormatCall \/ NextTime

FmtSpec == FmtInit /\ [][FmtNext]_vars

(* ----------------------------- properties ------------------------------ *)
\* No dispatch, window close or exit has happened since the latest key
\* dispatch: the program state is the one that dispatch left.
SinceDispatch(key) ==
  /\ prev.key = key
  /\ window.state = "open"

\* C1: in every state of the running loop frame_index >= 1 and the held
\* frame is the frame_index-th frame of the stream the current handle reads.
C1_FrameIndexIsOrdinal ==
  Running =>
    /\ frame_index >= 1
    /\ frame_index <= Len(cap.content)
    /\ frame = cap.content[frame_index]
    /\ frame # NoFrame

\* C1 witness: the loop is running after a step-backward that adopted a new
\* handle at frame 2 of a file that changed meanwhile.
C1_Witness ==
  /\ Running
  /\ prev.key = "a"
  /\ cap.id # prev.capId
  /\ frame_index = 2
  /\ fileChanges > 0
  /\ frame = FrameOf(2, 2)

\* C2: when a step-forward that advanced from frame N is followed directly
\* by a step-backward and the file has not changed, frame_index is N again
\* and the held frame is the frame held at N before.
C2_ForwardThenBackward ==
  (SinceDispatch("a") /\ prev.stepped # NoFrame /\ fileChanges = 0) =>
    /\ frame_index = prev.idx - 1
    /\ frame = prev.stepped
    /\ paused

\* C2 witness: a step-backward dispatched right after an advancing
\* step-forward from frame 2, on an unchanged file.
C2_Witness ==
  /\ SinceDispatch("a")
  /\ prev.stepped # NoFrame
  /\ fileChanges = 0
  /\ frame_index = 2
  /\ prev.idx = 3

\* C3: step-backward dispatched while paused at frame_index 1 changes
\* neither frame_index, the held frame, paused nor the handle (no
\* VideoCapture is constructed, none released), and the loop keeps running.
C3_BackwardAtFirstFrameIsNoOp ==
  (SinceDispatch("a") /\ prev.paused /\ prev.idx = 1) =>
    /\ Running
    /\ frame_index = 1
    /\ frame = prev.frame
    /\ paused
    /\ cap.id = prev.capId
    /\ cap.pos = prev.pos
    /\ IsOpened(cap)
    /\ nextId = prev.nextId
    /\ liveHandles = 1

\* C3 witness: step-backward was dispatched while paused at the first frame.
C3_Witness ==
  /\ SinceDispatch("a")
  /\ prev.paused
  /\ prev.idx = 1
  /\ pc = "loop_top"

\* C4: step-forward dispatched while paused with the handle at the end of
\* its stream leaves frame_index and the held frame unchanged, the frame is
\* not empty, and the loop stays running and paused.
C4_ForwardAtEndKeepsState ==
  (SinceDispatch("d") /\ prev.paused /\ cap.id = prev.capId
     /\ prev.pos >= Len(cap.content)) =>
    /\ Running
    /\ paused
    /\ frame_index = prev.idx
    /\ frame = prev.frame
    /\ frame # NoFrame
    /\ cap.pos = prev.pos

\* C4 witness: step-forward was dispatched while paused on the last frame
\* of a three-frame stream.
C4_Witness ==
  /\ SinceDispatch("d")
  /\ prev.paused
  /\ cap.id = prev.capId
  /\ prev.pos >= Len(cap.content)
  /\ prev.idx = 3
  /\ pc = "loop_top"

\* the reopen of the latest step-backward could not reach its target
ReopenFellShort ==
  \/ ~lastCreate.capOpened
  \/ lastCreate.frames < prev.idx - 1

\* C5: when the reopen of a step-backward fails, or the re-decode ends
\* before target = frame_index - 1 frames were read, frame_index, the held
\* frame and the handle are unchanged: the old handle is still open and in
\* use and the new handle is not adopted (it is the only live handle).
C5_FailedBackwardKeepsState ==
  (SinceDispatch("a") /\ prev.paused /\ prev.idx > 1 /\ ReopenFellShort) =>
    /\ Running
    /\ frame_index = prev.idx
    /\ frame = prev.frame
    /\ cap.id = prev.capId
    /\ cap.pos = prev.pos
    /\ IsOpened(cap)
    /\ liveHandles = 1
    /\ nextId > prev.nextId

\* C5 witness: a step-backward from frame 3 reopened a file that by then
\* held one frame only, so the re-decode read one frame and hit the end.
C5_Witness ==
  /\ SinceDispatch("a")
  /\ prev.paused
  /\ prev.idx = 3
  /\ lastCreate.capOpened
  /\ lastCreate.frames = 1
  /\ nextId > prev.nextId

\* C6: a step takes the loop from running to terminated only when it is
\* the dispatch of the quit key, the detection of the closed window at the
\* top of an iteration, or a failed read at the top of an iteration in
\* which paused is false; so while paused only the quit key and the closed
\* window end the loop.  Once terminated the program stays terminated.
C6_OnlyThreeWaysOut ==
  [][ /\ (Running /\ pc' = "exited") =>
           \/ /\ pc = "wait_key"
              /\ prev' = Here("q")
              /\ exitReason' = "quit"
           \/ /\ pc = "loop_top"
              /\ window.state # "open"
              /\ exitReason' = "window_closed"
           \/ /\ pc = "loop_top"
              /\ window.state = "open"
              /\ ~paused
              /\ ~Read(cap).ret
              /\ exitReason' = "end_of_stream"
      /\ (pc = "exited") => (pc' = "exited" /\ exitReason' = exitReason)
    ]_vars

\* C6 witness: the loop has terminated on a failed read while playing.
C6_Witness ==
  /\ pc = "exited"
  /\ loopEntered
  /\ exitReason = "end_of_stream"
  /\ ~paused
  /\ frame = NoFrame

CanOpen(f, info) ==
  f.exists /\ ((has_ffmpeg_support(info) /\ f.ffOk) \/ f.defOk)

\* C8: setup ends the process with status 1 exactly when no path was
\* selected, the path does not exist, the source cannot be opened or holds
\* no first frame, and then the loop is never entered; otherwise the loop is
\* entered, and when it terminates the status is 0.
C8_ExitStatus ==
  [][ /\ (pc = "start" /\ pc' # "start") =>
           LET fails == \/ Falsy(video_path')
                        \/ ~file.exists
                        \/ ~CanOpen(file, buildInfo)
                        \/ Len(file.frames) = 0
           IN  /\ fails <=> (pc' = "exited" /\ exitCode' = 1)
               /\ fails => ~loopEntered'
               /\ ~fails => (loopEntered' /\ pc' = "loop_top"
                             /\ exitCode' = -1)
      /\ (Running /\ pc' = "exited") => (loopEntered /\ exitCode' = 0)
      /\ (pc = "exited") => (exitCode' = exitCode /\ loopEntered' = loopEntered)
    ]_vars

\* C8 witness: the process ended with status 1 because the opened source
\* held no frame.
C8_Witness ==
  /\ pc = "exited"
  /\ exitCode = 1
  /\ exitReason = "first_frame_failed"
  /\ ~loopEntered

\* C9: after every create_capture call the label is FFMPEG exactly when the
\* probe was positive and the FFMPEG open succeeded, and then the handle
\* returned is that open FFMPEG handle; otherwise (probe negative or
\* raising, or FFMPEG open failed and that handle released) the handle
\* returned was constructed by the default backend and the label is DEFAULT.
C9_BackendLabel ==
  (lastCreate.made > 0) =>
    /\ lastCreate.backend \in {"FFMPEG", "DEFAULT"}
    /\ (lastCreate.backend = "FFMPEG") <=>
         (has_ffmpeg_support(lastCreate.info) /\ lastCreate.ffOk)
    /\ (lastCreate.backend = "FFMPEG") =>
         (lastCreate.capBackend = "FFMPEG" /\ lastCreate.capOpened
          /\ lastCreate.made = 1)
    /\ (lastCreate.backend = "DEFAULT") => (lastCreate.capBackend = "DEFAULT")
    /\ (has_ffmpeg_support(lastCreate.info) /\ ~lastCreate.ffOk) =>
         (lastCreate.ffTried /\ lastCreate.ffReleased /\ lastCreate.made = 2)
    /\ ~has_ffmpeg_support(lastCreate.info) =>
         (~lastCreate.ffTried /\ lastCreate.made = 1)

\* C9 witness: the FFMPEG open failed, that handle was released and the
\* default backend opened the file.
C9_Witness ==
  /\ lastCreate.ffTried
  /\ ~lastCreate.ffOpened
  /\ lastCreate.ffReleased
  /\ lastCreate.backend = "DEFAULT"
  /\ lastCreate.capOpened

DigitVal(ch) == CHOOSE d \in 0..9 : DigitChar(d) = ch

RECURSIVE NumberOf(_)
\* the number a sequence of digit characters writes
NumberOf(ds) ==
  IF ds = <<>> THEN 0
  ELSE 10 * NumberOf(SubSeq(ds, 1, Len(ds) - 1)) + DigitVal(ds[Len(ds)])

IsDigit(ch) == \E d \in 0..9 : DigitChar(d) = ch

\* the three numbers written in a string of the shape <digits>m<dd>s<ddd>ms
FieldsOf(str) ==
  LET n == Len(str)
  IN  [minutes |-> NumberOf(SubSeq(str, 1, n - 9)),
       seconds |-> NumberOf(SubSeq(str, n - 7, n - 6)),
       ms |-> NumberOf(SubSeq(str, n - 4, n - 2))]

WellShaped(str) ==
  LET n == Len(str)
  IN  /\ n >= 13
      /\ str[n - 8] = "m" /\ str[n - 5] = "s"
      /\ str[n - 1] = "m" /\ str[n] = "s"
      /\ \A i \in (1..(n - 9)) \cup {n - 7, n - 6, n - 4, n - 3, n - 2} :
           IsDigit(str[i])

\* C10: for a whole number t of milliseconds the string format_time_msec
\* returns writes minutes = t div 60000, seconds = (t div 1000) mod 60 in
\* 0..59 and ms = t mod 1000 in 0..999, with minutes*60000 + seconds*1000 +
\* ms = t; 12345, 0 and 61999 give 0000m12s345ms, 0000m00s000ms and
\* 0001m01s999ms.
C10_FormatTimeMsec ==
  (time_str # <<>> /\ msec % 2 = 0) =>
    LET t == msec \div 2
        f == FieldsOf(time_str)
    IN  /\ WellShaped(time_str)
        /\ f.minutes = t \div 60000
        /\ f.seconds = (t \div 1000) % 60
        /\ f.seconds \in 0..59
        /\ f.ms = t % 1000
        /\ f.ms \in 0..999
        /\ f.minutes * 60000 + f.seconds * 1000 + f.ms = t
        /\ (t = 12345) =>
             time_str = <<"0", "0", "0", "0", "m", "1", "2", "s",
                          "3", "4", "5", "m", "s">>
        /\ (t = 0) =>
             time_str = <<"0", "0", "0", "0", "m", "0", "0", "s",
                          "0", "0", "0", "m", "s">>
        /\ (t = 61999) =>
             time_str = <<"0", "0", "0", "1", "m", "0", "1", "s",
                          "9", "9", "9", "m", "s">>

\* C10 witness: format_time_msec(61999) has returned.
C10_Witness ==
  /\ msec = 2 * 61999
  /\ time_str = <<"0", "0", "0", "1", "m", "0", "1", "s",
                  "9", "9", "9", "m", "s">>

\* the parts of a snapshot filename: what stands before the first "_",
\* between the two "_", between the second "_" and the extension
NameParts(name) ==
  LET n == Len(name)
      u == CHOOSE i \in 3..n : name[i] = "_"
  IN  [base |-> name[1],
       sep |-> name[2],
       time |-> SubSeq(name, 3, u - 1),
       index |-> SubSeq(name, u + 1, n - 1),
       ext |-> name[n]]

AllDigits(ds) == \A i \in 1..Len(ds) : IsDigit(ds[i])

\* C11 as stated: every snapshot filename is basename, "_", 4 digits "m"
\* 2 digits "s" 3 digits "ms", "_", 6 digits holding the frame_index of the
\* key press, ".png".
C11_AsStated ==
  (snap # NoSnap) =>
    LET p == NameParts(snap.name)
    IN  /\ p.base = "video" /\ p.sep = "_" /\ p.ext = ".png"
        /\ WellShaped(p.time)
        /\ Len(p.time) = 13
        /\ Len(p.index) = 6
        /\ AllDigits(p.index)
        /\ NumberOf(p.index) = prev.idx

\* C11 amended: the filename has that shape with the minutes field at
\* least 4 digits wide and the index field at least 6; the minutes field
\* is exactly 4 digits when the playback time rounds to less than 10000
\* minutes (and longer otherwise), the index field exactly 6 digits when
\* frame_index < 1000000; the time written is the playback time rounded
\* to whole milliseconds and the index is the frame_index of the key press.
C11_FilenameShape ==
  (snap # NoSnap) =>
    LET p == NameParts(snap.name)
        f == FieldsOf(p.time)
        t == TotalMs(snap.pos_msec)
    IN  /\ prev.key = "s"
        /\ p.base = "video" /\ p.sep = "_" /\ p.ext = ".png"
        /\ WellShaped(p.time)
        /\ f.minutes * 60000 + f.seconds * 1000 + f.ms = t
        /\ f.seconds < 60 /\ f.ms < 1000
        /\ (t < 10000 * 60000) <=> (Len(p.time) = 13)
        /\ AllDigits(p.index)
        /\ NumberOf(p.index) = prev.idx
        /\ Len(p.index) >= 6
        /\ (prev.idx < 1000000) => (Len(p.index) = 6)

\* C11 witness: a snapshot of frame 2 was saved at 12345.5 ms.
C11_Witness ==
  /\ SinceDispatch("s")
  /\ snap.saved
  /\ prev.idx = 2
  /\ snap.name = <<"video", "_", "0", "0", "0", "0", "m", "1", "2", "s",
                   "3", "4", "6", "m", "s", "_",
                   "0", "0", "0", "0", "0", "2", ".png">>

\* C12: a step-backward dispatched while paused at frame_index = N > 1 on
\* an unchanged file sets frame_index to N-1 and the held frame to frame
\* N-1 of the file, releases the old handle and adopts a newly constructed
\* one (the only live handle) whose cursor stands after frame N-1, so that
\* the next read returns frame N; and a step-forward that finds a frame
\* holds that frame with frame_index one higher.
C12_BackwardAdoptsNewHandle ==
  /\ (SinceDispatch("a") /\ prev.paused /\ prev.idx > 1 /\ fileChanges = 0) =>
       /\ frame_index = prev.idx - 1
       /\ frame = file.frames[prev.idx - 1]
       /\ cap.id # prev.capId
       /\ cap.id >= prev.nextId
       /\ IsOpened(cap)
       /\ liveHandles = 1
       /\ cap.pos = prev.idx - 1
       /\ Read(cap).ret
       /\ Read(cap).frame = file.frames[prev.idx]
       /\ Read(cap).cap.pos = prev.idx
  /\ (SinceDispatch("d") /\ prev.paused /\ cap.id = prev.capId
        /\ prev.pos < Len(cap.content)) =>
       /\ frame_index = prev.idx + 1
       /\ frame = cap.content[prev.pos + 1]
       /\ cap.pos = prev.pos + 1

\* C12 witness: on an unchanged file a step-forward has returned to frame
\* 3 through the handle a step-backward from frame 3 had adopted.
C12_Witness ==
  /\ SinceDispatch("d")
  /\ prev.paused
  /\ fileChanges = 0
  /\ prev.idx = 2
  /\ frame_index = 3
  /\ frame = file.frames[3]
  /\ cap.id = prev.capId
  /\ cap.id = nextId - 1
  /\ nextId > lastCreate.made + 1

\* the step is the dispatch of `key` (lines 193-270 run with that key)
DispatchOf(key) ==
  /\ pc = "wait_key"
  /\ pc' # "wait_key"
  /\ window.state = "open"
  /\ prev' = Here(key)

\* C13: a step-forward or step-backward dispatched while paused is false
\* reads nothing, constructs and releases no handle and leaves
\* frame_index, the held frame and the handle as they are; while paused is
\* false frame_index changes only at the top of an iteration, by one,
\* together with one read of the same handle.
C13_StepKeysNeedPause ==
  [][ /\ ((DispatchOf("a") \/ DispatchOf("d")) /\ ~paused) =>
           /\ cap' = cap
           /\ nextId' = nextId
           /\ liveHandles' = liveHandles
           /\ lastCreate' = lastCreate
           /\ frame' = frame
           /\ frame_index' = frame_index
           /\ paused' = paused
           /\ pc' = "loop_top"
      /\ (Running /\ ~paused /\ frame_index' # frame_index) =>
           /\ pc = "loop_top"
           /\ pc' = "wait_key"
           /\ frame_index' = frame_index + 1
           /\ cap'.id = cap.id
           /\ cap'.pos = cap.pos + 1
    ]_vars

\* C13 witness: step-forward was dispatched while playing, with a further
\* frame available, and nothing was read.
C13_Witness ==
  /\ SinceDispatch("d")
  /\ ~prev.paused
  /\ pc = "loop_top"
  /\ frame_index = prev.idx
  /\ cap.pos = prev.pos
  /\ cap.pos < Len(cap.content)

\* C14: the dispatch of snapshot, resize-preserve-width or resize-reset,
\* whatever the outcome of the encode, the file write or the geometry
\* query, leaves frame_index, paused, the held frame and the handle with
\* its cursor unchanged, and the loop goes on to its next iteration.
C14_SnapshotAndResizeKeepState ==
  [][ (DispatchOf("s") \/ DispatchOf("r") \/ DispatchOf("R")) =>
        /\ frame_index' = frame_index
        /\ paused' = paused
        /\ frame' = frame
        /\ cap' = cap
        /\ liveHandles' = liveHandles
        /\ pc' = "loop_top"
        /\ exitCode' = -1
    ]_vars

\* C14 witness: a snapshot dispatched while playing failed to be saved and
\* the loop is at the top of its next iteration.
C14_Witness ==
  /\ SinceDispatch("s")
  /\ ~prev.paused
  /\ snap # NoSnap
  /\ ~snap.saved
  /\ pc = "loop_top"
  /\ frame_index = prev.idx

\* C15: the dispatch of toggle-pause negates paused and changes neither
\* frame_index, the held frame, the handle nor the window; no other step
\* changes paused.
C15_TogglePause ==
  [][ /\ DispatchOf(" ") =>
           /\ paused' = ~paused
           /\ cap' = cap
           /\ nextId' = nextId
           /\ liveHandles' = liveHandles
           /\ frame' = frame
           /\ frame_index' = frame_index
           /\ window' = window
           /\ pc' = "loop_top"
      /\ (paused' # paused) => DispatchOf(" ")
    ]_vars

\* C15 witness: toggle-pause was dispatched while playing and the
\* controller is paused on frame 2.
C15_Witness ==
  /\ SinceDispatch(" ")
  /\ ~prev.paused
  /\ paused
  /\ frame_index = 2
  /\ prev.idx = 2

\* C16: from the entry of the loop until the first toggle-pause or
\* step-forward is dispatched the controller is paused, frame_index is 1,
\* the held frame is the first frame of the handle opened by the setup,
\* exactly one frame has been read from that handle and no further handle
\* has been constructed.
C16_LoopEntryState ==
  (Running /\ ~prev.started) =>
    /\ paused
    /\ frame_index = 1
    /\ frame # NoFrame
    /\ frame = cap.content[1]
    /\ cap.pos = 1
    /\ cap.id = nextId - 1
    /\ nextId = lastCreate.made + 1

\* C16 witness: a snapshot was saved before any toggle-pause or
\* step-forward; the loop is still on the first frame.
C16_Witness ==
  /\ Running
  /\ ~prev.started
  /\ SinceDispatch("s")
  /\ snap.saved
  /\ frame_index = 1

\* C18: while the loop runs the cursor of the current handle equals
\* frame_index, the handle is open, and a read from it that succeeds
\* returns frame frame_index + 1 of the handle's stream.
C18_CursorIsFrameIndex ==
  Running =>
    /\ cap.pos = frame_index
    /\ IsOpened(cap)
    /\ Read(cap).ret =>
         /\ Read(cap).frame = cap.content[frame_index + 1]
         /\ Read(cap).cap.pos = frame_index + 1

\* C18 witness: the handle in use was adopted by a step-backward, a later
\* step-backward failed, and playback has since advanced to frame 3.
C18_Witness ==
  /\ Running
  /\ ~paused
  /\ frame_index = 3
  /\ cap.pos = 3
  /\ cap.id = 2
  /\ nextId = 4
  /\ fileChanges = 1

\* C19: every key is dispatched with a non-empty held frame, a snapshot
\* dispatch always produces a filename (the empty-frame branch is not
\* taken), and once the loop was entered the held frame is empty only
\* after the failed read that ended the loop.
C19_HeldFrameNeverEmpty ==
  /\ pc = "wait_key" => frame # NoFrame
  /\ prev.key # "none" => prev.frame # NoFrame
  /\ prev.key = "s" => snap # NoSnap
  /\ Running => frame # NoFrame
  /\ (loopEntered /\ frame = NoFrame) =>
       /\ pc = "exited"
       /\ exitReason = "end_of_stream"

\* C19 witness: a snapshot was dispatched while playing the last frame,
\* after a step-forward had failed at the end of the stream earlier on.
C19_Witness ==
  /\ SinceDispatch("s")
  /\ ~prev.paused
  /\ snap # NoSnap
  /\ prev.frame # NoFrame
  /\ prev.pos = Len(cap.content)
  /\ cap.id = prev.capId

\* C20: while the loop runs exactly one handle is open and it is the
\* current one; a step-backward that constructed handles leaves the old
\* handle or one of the new ones as the only open handle; an FFMPEG handle
\* that did not open has been released; after the loop no handle is open.
C20_NoHandleLeak ==
  /\ Running => (liveHandles = 1 /\ IsOpened(cap))
  /\ (SinceDispatch("a") /\ nextId > prev.nextId) =>
       /\ liveHandles = 1
       /\ IsOpened(cap)
       /\ (cap.id = prev.capId \/ cap.id >= prev.nextId)
       /\ cap.id < nextId
  /\ (lastCreate.ffTried /\ ~lastCreate.ffOpened) => lastCreate.ffReleased
  /\ (pc = "exited" /\ loopEntered) => liveHandles = 0

\* C20 witness: a step-backward whose FFMPEG attempt failed, whose default
\* handle opened, and whose re-decode fell short: two handles were
\* constructed, none adopted, one handle is open.
C20_Witness ==
  /\ SinceDispatch("a")
  /\ nextId = prev.nextId + 2
  /\ cap.id = prev.capId
  /\ lastCreate.ffTried
  /\ ~lastCreate.ffOpened
  /\ lastCreate.capOpened
  /\ liveHandles = 1

\* C17: with iterations scheduled fairly, whenever the loop runs with
\* paused false it later terminates or paused has become true (which only
\* a toggle-pause dispatch does); and a step that terminates the loop from
\* a paused state with the window open is the dispatch of the quit key, so
\* without key events a paused loop with an open window keeps running.
C17_PlayingTerminates ==
  /\ [] ((Running /\ ~paused) => <>(pc = "exited" \/ paused))
  /\ [][ (Running /\ paused /\ window.state = "open" /\ pc' = "exited") =>
           DispatchOf("q") ]_vars

\* C17 witness: playback ran into the end of the stream and terminated the
\* loop; the last key dispatched, while playing, was a snapshot.
C17_Witness ==
  /\ pc = "exited"
  /\ exitReason = "end_of_stream"
  /\ prev.key = "s"
  /\ ~prev.paused
  /\ frame_index = 3

====
